---- MODULE Spec2Model ----
(***************************************************************************)
(* GraphTool/source/Main.cpp: a point-cloud rendering benchmark.           *)
(* main() creates a window, a shader program and a buffer of pointCount    *)
(* random points, then renders the buffer every frame; with BATCHING_TEST  *)
(* defined each frame rewrites the next window of batchSize points         *)
(* (AlterBuffer) until the cursor is exhausted.                            *)
(*                                                                         *)
(* unsigned int is modelled with UIntBits bits (the build has 32): every   *)
(* unsigned int expression is reduced modulo 2^UIntBits exactly where the  *)
(* C++ expression is evaluated in unsigned int.                            *)
(***************************************************************************)
EXTENDS Integers, Naturals, Sequences, FiniteSets, TLC

\* Width of the model's unsigned int.
UIntBits == 4

\* Saturation point of the history counters calls/draws/presents.
GhostSlack == 2

\* Bytes per point passed to glBufferSubData: 2 floats * sizeof(float).
PointStride == 8

UIntMod == 2 ^ UIntBits
UInt == 0 .. (UIntMod - 1)
GhostCap == UIntMod + GhostSlack

\* unsigned int a + b
AddU(a, b) == (a + b) % UIntMod

\* unsigned int a * b
MulU(a, b) == (a * b) % UIntMod

Sat(n) == IF n < GhostCap THEN n + 1 ELSE GhostCap

VARIABLES
    BATCHING_TEST, \* whether the macro of line 13 is defined
    pointCount,    \* const unsigned int pointCount
    batchSize,     \* const unsigned int batchSize
    pc,            \* position of main()
    window,        \* TRUE: a window, FALSE: nullptr
    glLoaded,      \* whether gladLoadGLLoader loaded the GL entry points
    shouldClose,   \* the window's close flag (glfwWindowShouldClose)
    program,       \* handle returned by CreateShaderProgram (0: none)
    vbo,           \* handle returned by CreateRandomPointBuffer (0: none)
    vao,           \* handle returned by CreateVertexArrayObject (0: none)
    store,         \* the data store of vbo: point index -> point
    frame,         \* unsigned int frame
    offset,        \* unsigned int offset
    sum,           \* float sum: "zero" or "pos"
    out,           \* what was written to std::cout
    userClosed,    \* history: the environment asked to close the window
    exhausted,     \* history: line 55 ran
    calls,         \* history: number of AlterBuffer calls
    seeds,         \* history: the seeds AlterBuffer was called with, in order
    writes,        \* history: point index -> number of times overwritten
    lastCall,      \* history: <<offset, batchSize, seed>> of the last AlterBuffer call
    draws,         \* history: number of glDrawArrays calls
    drawCount,     \* history: the vertex count of the last glDrawArrays call
    presents       \* history: number of glfwSwapBuffers calls

vars == <<BATCHING_TEST, pointCount, batchSize, pc, window, glLoaded, shouldClose,
          program, vbo, vao, store, frame, offset, sum, out, userClosed,
          exhausted, calls, seeds, writes, lastCall, draws, drawCount, presents>>

config == <<BATCHING_TEST, pointCount, batchSize>>
handles == <<program, vbo, vao>>
locals == <<frame, offset, sum>>
history == <<exhausted, calls, seeds, writes, lastCall, draws, drawCount, presents>>

----------------------------------------------------------------------------
\* Points. A point keeps how it was generated: by the initial fill (x drawn
\* from [-1,0)) or by AlterBuffer (x drawn from [0,1)) with a seed, and its
\* position in the generated sequence.

InitPoint(i) == <<"init", 0, i>>
AlterPoint(seed, j) == <<"alter", seed, j>>

XNegative(p) == p[1] = "init"
XPositive(p) == p[1] = "alter"

\* The vector built by CreateRandomPointBuffer's loop, as points.
InitialFill(count) == [i \in 0 .. (count - 1) |-> InitPoint(i)]

\* The vector built by AlterBuffer's loop, as points.
AlterData(n, seed) == [j \in 0 .. (n - 1) |-> AlterPoint(seed, j)]

\* glBufferSubData(GL_ARRAY_BUFFER, byteOffset, byteSize, data) on a store of
\* Len points: GL_INVALID_VALUE and no effect when the range leaves the store.
\* Both byte counts are multiples of PointStride. The unsigned int arguments
\* are widened to GLintptr/GLsizeiptr and the store's size was computed in
\* size_t (line 155), so nothing wraps here.
BufferSubData(s, len, byteOffset, byteSize, data) ==
    IF byteOffset + byteSize > len * PointStride
    THEN s
    ELSE [i \in 0 .. (len - 1) |->
            IF /\ i * PointStride >= byteOffset
               /\ i * PointStride < byteOffset + byteSize
            THEN data[i - (byteOffset \div PointStride)]
            ELSE s[i]]

\* The points a glBufferSubData call overwrites.
Touched(len, byteOffset, byteSize) ==
    IF byteOffset + byteSize > len * PointStride
    THEN {}
    ELSE {i \in 0 .. (len - 1) :
            /\ i * PointStride >= byteOffset
            /\ i * PointStride < byteOffset + byteSize}

\* The byte offset and size AlterBuffer passes: offset * 8 and batchSize * 8,
\* both unsigned int products.
ByteOffset(off) == MulU(off, PointStride)
ByteSize(n) == MulU(n, PointStride)

\* AlterBuffer's effect on the store.
AlterStore(s, len, off, n, seed) ==
    BufferSubData(s, len, ByteOffset(off), ByteSize(n), AlterData(n, seed))

\* The test of line 49.
CursorExhausted(off, n, count) == AddU(off, n) > count

\* float + float, with elapsed >= 0
FloatAdd(s, ms) == IF ms > 0 THEN "pos" ELSE s

\* A division that yields 0 instead of NaN for 0 / 0.
FloatDivNoNaN(s, n) ==
    IF n = 0
    THEN (IF s = "zero" THEN "zero" ELSE "Inf")
    ELSE s

\* float / static_cast<float>(unsigned), IEEE 754
FloatDiv(s, n) ==
    IF n = 0
    THEN (IF s = "zero" THEN "NaN" ELSE "Inf")
    ELSE s

----------------------------------------------------------------------------
Init ==
    /\ BATCHING_TEST \in BOOLEAN
    /\ pointCount \in UInt
    /\ batchSize \in UInt \ {0}
    /\ pc = "Initialize"
    /\ window = FALSE
    /\ glLoaded = FALSE
    /\ shouldClose = FALSE
    /\ program = 0
    /\ vbo = 0
    /\ vao = 0
    /\ store = <<>>
    /\ frame = 0
    /\ offset = 0
    /\ sum = "zero"
    /\ out = <<>>
    /\ userClosed = FALSE
    /\ exhausted = FALSE
    /\ calls = 0
    /\ seeds = <<>>
    /\ writes = <<>>
    /\ lastCall = <<>>
    /\ draws = 0
    /\ drawCount = 0
    /\ presents = 0

\* Initialize (line 29): no result of glfwCreateWindow, glfwMakeContextCurrent
\* or gladLoadGLLoader is tested; a null window is returned as it is. A close
\* request may already be delivered while the window is created and shown.
Initialize ==
    /\ pc = "Initialize"
    /\ \E ok \in BOOLEAN, c \in BOOLEAN :
        /\ window' = ok
        /\ glLoaded' = ok
        /\ shouldClose' = (ok /\ c)
        /\ userClosed' = (ok /\ c)
    /\ pc' = "CreateShaderProgram"
    /\ UNCHANGED <<config, handles, store, locals, out, history>>

\* A call through a GL entry point that was never loaded, or a GLFW call on a
\* null window, is undefined: the process may die there, or go on.
Crash ==
    /\ ~glLoaded
    /\ pc \in {"CreateShaderProgram", "CreateRandomPointBuffer",
               "CreateVertexArrayObject", "LoopTest", "PollEvents", "Batch",
               "Render", "SwapBuffers", "Shutdown"}
    /\ pc' = "Crashed"
    /\ UNCHANGED <<config, window, glLoaded, shouldClose, handles, store,
                   locals, out, userClosed, history>>

\* CreateShaderProgram (line 30)
CreateShaderProgram ==
    /\ pc = "CreateShaderProgram"
    /\ program' = 1
    /\ pc' = "CreateRandomPointBuffer"
    /\ UNCHANGED <<config, window, glLoaded, shouldClose, vbo, vao, store,
                   locals, out, userClosed, history>>

\* CreateRandomPointBuffer(pointCount) (line 32)
CreateRandomPointBuffer ==
    /\ pc = "CreateRandomPointBuffer"
    /\ vbo' = 1
    /\ store' = InitialFill(pointCount)
    /\ writes' = [i \in 0 .. (pointCount - 1) |-> 0]
    /\ pc' = "CreateVertexArrayObject"
    /\ UNCHANGED <<config, window, glLoaded, shouldClose, program, vao,
                   locals, out, userClosed, exhausted, calls, seeds, lastCall,
                   draws, drawCount, presents>>

\* CreateVertexArrayObject(vbo) and the locals of lines 39-41
CreateVertexArrayObject ==
    /\ pc = "CreateVertexArrayObject"
    /\ vao' = 1
    /\ frame' = 0
    /\ offset' = 0
    /\ sum' = "zero"
    /\ pc' = "LoopTest"
    /\ UNCHANGED <<config, window, glLoaded, shouldClose, program, vbo, store,
                   out, userClosed, history>>

\* while (!glfwWindowShouldClose(window)) (line 42)
LoopTest ==
    /\ pc = "LoopTest"
    /\ pc' = IF shouldClose THEN "Report" ELSE "PollEvents"
    /\ UNCHANGED <<config, window, glLoaded, shouldClose, handles, store,
                   locals, out, userClosed, history>>

\* glfwPollEvents() (line 44): a pending close request sets the close flag.
PollEvents ==
    /\ pc = "PollEvents"
    /\ \E c \in BOOLEAN :
        /\ shouldClose' = (shouldClose \/ c)
        /\ userClosed' = (userClosed \/ c)
    /\ pc' = "Batch"
    /\ UNCHANGED <<config, window, glLoaded, handles, store, locals, out,
                   history>>

\* AlterBuffer(vbo, offset, batchSize, frame) (lines 51, 175-196)
AlterBuffer ==
    /\ store' = AlterStore(store, pointCount, offset, batchSize, frame)
    /\ offset' = AddU(offset, batchSize)
    /\ calls' = Sat(calls)
    /\ seeds' = IF Len(seeds) < GhostCap THEN Append(seeds, frame) ELSE seeds
    /\ writes' = [i \in 0 .. (pointCount - 1) |->
                    IF i \in Touched(pointCount, ByteOffset(offset), ByteSize(batchSize))
                    THEN Sat(writes[i]) ELSE writes[i]]
    /\ lastCall' = <<offset, batchSize, frame>>
    /\ UNCHANGED <<shouldClose, exhausted>>

\* glfwSetWindowShouldClose(window, GLFW_TRUE) (line 55)
RequestClose ==
    /\ shouldClose' = TRUE
    /\ exhausted' = TRUE
    /\ UNCHANGED <<store, offset, calls, seeds, writes, lastCall>>

\* Lines 49-56 compiled in whether or not BATCHING_TEST is defined.
BatchAlways ==
    /\ pc = "Batch"
    /\ IF ~CursorExhausted(offset, batchSize, pointCount)
       THEN AlterBuffer
       ELSE RequestClose
    /\ pc' = "Render"
    /\ UNCHANGED <<config, window, glLoaded, handles, frame, sum, out,
                   userClosed, draws, drawCount, presents>>

\* #ifdef BATCHING_TEST ... #endif (lines 48-57)
Batch ==
    /\ pc = "Batch"
    /\ IF BATCHING_TEST
       THEN IF ~CursorExhausted(offset, batchSize, pointCount)
            THEN AlterBuffer
            ELSE RequestClose
       ELSE UNCHANGED <<store, offset, calls, seeds, writes, lastCall,
                        shouldClose, exhausted>>
    /\ pc' = "Render"
    /\ UNCHANGED <<config, window, glLoaded, handles, frame, sum, out,
                   userClosed, draws, drawCount, presents>>

\* glClear, glUseProgram, glBindVertexArray, glDrawArrays (lines 60-64)
Render ==
    /\ pc = "Render"
    /\ draws' = Sat(draws)
    /\ drawCount' = pointCount
    /\ pc' = "SwapBuffers"
    /\ UNCHANGED <<config, window, glLoaded, shouldClose, handles, store,
                   locals, out, userClosed, exhausted, calls, seeds, writes,
                   lastCall, presents>>

\* glfwSwapBuffers(window) (line 66)
SwapBuffers ==
    /\ pc = "SwapBuffers"
    /\ presents' = Sat(presents)
    /\ pc' = "Count"
    /\ UNCHANGED <<config, window, glLoaded, shouldClose, handles, store,
                   locals, out, userClosed, exhausted, calls, seeds, writes,
                   lastCall, draws, drawCount>>

\* frame += 1u; sum += ms.count(); (lines 69-72)
Count ==
    /\ pc = "Count"
    /\ \E ms \in {0, 1} : sum' = FloatAdd(sum, ms)
    /\ frame' = AddU(frame, 1)
    /\ pc' = "LoopTest"
    /\ UNCHANGED <<config, window, glLoaded, shouldClose, handles, store,
                   offset, out, userClosed, history>>

\* The two lines written to std::cout (lines 75-76)
Report ==
    /\ pc = "Report"
    /\ out' = <<FloatDiv(sum, frame), frame>>
    /\ pc' = "Shutdown"
    /\ UNCHANGED <<config, window, glLoaded, shouldClose, handles, store,
                   locals, userClosed, history>>

\* glDeleteVertexArrays, glDeleteBuffers, Shutdown(window) (lines 78-80)
Shutdown ==
    /\ pc = "Shutdown"
    /\ vao' = 0
    /\ vbo' = 0
    /\ store' = <<>>
    /\ window' = FALSE
    /\ pc' = "Done"
    /\ UNCHANGED <<config, glLoaded, shouldClose, program, locals, out,
                   userClosed, history>>

Next ==
    \/ Initialize
    \/ Crash
    \/ CreateShaderProgram
    \/ CreateRandomPointBuffer
    \/ CreateVertexArrayObject
    \/ LoopTest
    \/ PollEvents
    \/ Batch
    \/ Render
    \/ SwapBuffers
    \/ Count
    \/ Report
    \/ Shutdown

Spec == Init /\ [][Next]_vars

\* The program's own steps are always taken: main() runs on one thread that
\* nothing suspends.
FairSpec == Spec /\ WF_vars(Next)

----------------------------------------------------------------------------
\* Positions after the while loop of line 42.
AfterLoop == {"Report", "Shutdown", "Done"}

Floor == pointCount \div batchSize

\* C1: in benchmark mode no AlterBuffer call is made with
\* offset + batchSize > pointCount, and when the cursor-exhaustion branch
\* requests the exit exactly floor(pointCount / batchSize) calls were made and
\* the cursor stands at floor(pointCount / batchSize) * batchSize.
C1_ExactCalls ==
    BATCHING_TEST =>
        /\ lastCall # <<>> => lastCall[1] + lastCall[2] <= pointCount
        /\ exhausted => /\ calls = Floor
                        /\ offset = Floor * batchSize

\* C2: the cursor stays within 0 .. pointCount, every step leaves it alone or
\* adds exactly batchSize to it, and it never decreases or wraps.
C2_CursorMonotone ==
    [][/\ offset' >= 0
       /\ offset' <= pointCount
       /\ offset' >= offset
       /\ offset' # offset => offset' = offset + batchSize]_vars

\* C3: an AlterBuffer call with offset + batchSize <= pointCount overwrites
\* exactly the points offset .. offset + batchSize - 1 with the generated
\* points, leaves every other point as it was and keeps the store's capacity.
C3_WindowOnly ==
    [][(/\ pc = "Batch"
        /\ pc' = "Render"
        /\ BATCHING_TEST
        /\ ~CursorExhausted(offset, batchSize, pointCount)
        /\ offset + batchSize <= pointCount)
       => /\ DOMAIN store' = DOMAIN store
          /\ \A i \in DOMAIN store :
                store'[i] = IF i >= offset /\ i < offset + batchSize
                            THEN AlterPoint(frame, i - offset)
                            ELSE store[i]]_vars

\* C4: the loop is left only after a close request was observed or the cursor
\* exhaustion fired, and in benchmark mode the loop is always left eventually
\* (or the process has died in startup).
C4_LoopExits ==
    /\ [](pc \in AfterLoop => (userClosed \/ exhausted))
    /\ (BATCHING_TEST => <>(pc \in AfterLoop \cup {"Crashed"}))

\* C5: after a failed Initialize the process stops at its first use of the
\* context: no program, no buffer, no loop iteration, no draw, no AlterBuffer
\* call.
C5_FatalStartup ==
    (pc # "Initialize" /\ ~glLoaded) =>
        /\ pc \in {"CreateShaderProgram", "Crashed"}
        /\ program = 0
        /\ vbo = 0
        /\ draws = 0
        /\ calls = 0

\* C6: when no frame was executed the report is still written, the mean is
\* NaN and the frame count is 0.
C6_ZeroFrames ==
    /\ (pc \in {"Shutdown", "Done"} /\ draws = 0) => out = <<"NaN", 0>>
    /\ (pc = "Report" /\ draws = 0) => (frame = 0 /\ sum = "zero")

C6_Witness ==
    /\ glLoaded
    /\ pc = "Done"
    /\ draws = 0
    /\ out = <<"NaN", 0>>

\* C7: without BATCHING_TEST the cursor stays 0, AlterBuffer is never called,
\* the exit is never requested by the program, the buffer keeps its initial
\* fill, every iteration draws and counts one frame, and the loop is left
\* only after a close request from outside.
C7_NoBatching ==
    ~BATCHING_TEST =>
        /\ offset = 0
        /\ calls = 0
        /\ lastCall = <<>>
        /\ ~exhausted
        /\ vbo = 1 => store = InitialFill(pointCount)
        /\ pc \in AfterLoop => userClosed
        /\ (pc = "LoopTest" /\ draws < GhostCap) => draws % UIntMod = frame

C7_Witness ==
    /\ ~BATCHING_TEST
    /\ glLoaded
    /\ pointCount > 1
    /\ pc = "Done"
    /\ draws > 2
    /\ userClosed

\* C8: every AlterBuffer call is passed the current frame index as seed, the
\* k-th call (k = 0, 1, ...) has seed k and offset k * batchSize, and no seed
\* is used twice.
C8_Lockstep ==
    /\ (lastCall # <<>> /\ calls < GhostCap) =>
            /\ lastCall[3] = calls - 1
            /\ lastCall[1] = lastCall[3] * batchSize
    /\ \A a, b \in DOMAIN seeds : seeds[a] = seeds[b] => a = b

\* C9: while the buffer exists every point below the cursor was overwritten
\* exactly once and holds an AlterBuffer point, and every point from the
\* cursor on was never overwritten and holds its initial point.
C9_Partition ==
    vbo = 1 =>
        \A i \in DOMAIN store :
            /\ i < offset => (XPositive(store[i]) /\ writes[i] = 1)
            /\ i >= offset => (XNegative(store[i]) /\ writes[i] = 0)

\* C10: in every iteration the batch step, the draw of pointCount vertices,
\* the present and the frame count happen once each in this order, so the
\* frame counter equals the number of draws; and a loop ended by cursor
\* exhaustion alone reports floor(pointCount / batchSize) + 1 frames.
C10_FrameCount ==
    /\ pc \in {"LoopTest", "PollEvents", "Batch", "Render"} \cup AfterLoop
            => (draws = frame /\ presents = frame)
    /\ pc = "SwapBuffers" => (draws = frame + 1 /\ presents = frame)
    /\ pc = "Count" => (draws = frame + 1 /\ presents = frame + 1)
    /\ draws > 0 => drawCount = pointCount
    /\ (exhausted /\ ~userClosed /\ out # <<>>) => out[2] = Floor + 1

====
